---- MODULE Spec2Model ----
(***************************************************************************)
(* Model of the mozjs build script (build.rs) and of the structured-clone  *)
(* buffer wrapper (js/rust/src/sc.rs).                                     *)
(*                                                                         *)
(* SpecSC    : callers constructing, using and dropping                    *)
(*             StructuredCloneBuffer values over a native heap.            *)
(* SpecBuild : one run of the build script's main() for every combination  *)
(*             of environment, host configuration and tool outcome.        *)
(***************************************************************************)
EXTENDS Integers, Sequences, FiniteSets, TLC

\* ---------------------------------------------------------------- bounds
MaxBufs == 2        \* wrapper values a caller creates
MaxAddr == 1        \* native heap addresses 1..MaxAddr (0 is null)
MaxLen  == 1        \* longest structured-clone payload, in bytes
MaxByte == 1        \* bytes range over 0..MaxByte

NULL  == 0
Addr  == 1..MaxAddr
BufId == 1..MaxBufs
Byte  == 0..MaxByte

RECURSIVE SeqsUpTo(_)
SeqsUpTo(n) ==
    IF n = 0 THEN {<<>>}
    ELSE LET S == SeqsUpTo(n - 1)
         IN  S \cup {Append(s, x) : s \in {t \in S : Len(t) = n - 1}, x \in Byte}

ByteSeqs == SeqsUpTo(MaxLen)

VARIABLES
    \* ---- sc.rs
    heap,       \* native heap: Addr -> [alive, data_]
    bufs,       \* BufId -> [st, raw]: the StructuredCloneBuffer values
    deletes,    \* BufId -> number of DeleteJSAutoStructuredCloneBuffer calls
    handles,    \* raw data pointers returned by data() and kept by callers
    ret,        \* what the last method call returned, and on which value
    badCalls,   \* native calls made on a null or destroyed native buffer
    \* ---- build.rs
    env,        \* process environment of the build script
    cfg,        \* host configuration: cfg!(windows), feature debugmozjs
    pc,         \* position in main()
    spawns,     \* child processes started, in order
    stdout,     \* cargo directives printed, in order
    glue,       \* the compilation of jsglue.cpp, once configured
    gen         \* the binding generator, once configured

scVars    == <<heap, bufs, deletes, handles, ret, badCalls>>
buildVars == <<env, cfg, pc, spawns, stdout, glue, gen>>
vars      == <<heap, bufs, deletes, handles, ret, badCalls,
               env, cfg, pc, spawns, stdout, glue, gen>>

\* No method has returned yet.
None == [op |-> "none"]

(***************************************************************************)
(*                    Structured clone buffer (sc.rs)                      *)
(***************************************************************************)

\* A native address holds a live JSAutoStructuredCloneBuffer.
Alive(a) == a \in Addr /\ heap[a].alive

\* Record a native call whose receiver is null or already destroyed.
Check(fn, a) ==
    IF Alive(a) THEN {}
    ELSE {[fn |-> fn, null |-> (a = NULL)]}

\* glue::NewJSAutoStructuredCloneBuffer: a fresh buffer (an address that is
\* not live, possibly one freed earlier) or null when allocation fails.
NewJSAutoStructuredCloneBuffer == {NULL} \cup {a \in Addr : ~heap[a].alive}

\* glue::GetLengthOfJSStructuredCloneData
GetLengthOfJSStructuredCloneData(p) ==
    IF Alive(p.obj) THEN Len(heap[p.obj].data_) ELSE 0

\* glue::CopyJSStructuredCloneData: the bytes stored through dest.
CopyJSStructuredCloneData(p) ==
    IF Alive(p.obj) THEN heap[p.obj].data_ ELSE <<>>

\* Vec::with_capacity(n): an empty vector over n reserved bytes.
Vec_with_capacity(n) == [len |-> 0, cap |-> n, mem |-> <<>>]

\* What a holder of the Vec observes: its first len bytes.
VecContents(v) == SubSeq(v.mem, 1, v.len)

\* StructuredCloneBuffer::data: &mut (*self.raw).data_ as a raw pointer.
data_null(raw) == [obj |-> NULL, field |-> "data_"]
data(raw) == [obj |-> raw, field |-> "data_"]

\* StructuredCloneBuffer::new
newNoAssert(b) ==
    /\ bufs[b].st = "none"
    /\ \A c \in BufId : c < b => bufs[c].st # "none"
    /\ \E raw \in NewJSAutoStructuredCloneBuffer :
        /\ bufs' = [bufs EXCEPT ![b] = [st |-> "Constructed", raw |-> raw]]
        /\ heap' = IF raw = NULL THEN heap
                   ELSE [heap EXCEPT ![raw] = [alive |-> TRUE, data_ |-> <<>>]]
    /\ UNCHANGED <<deletes, handles, ret, badCalls>>
    /\ UNCHANGED buildVars

new(b) ==
    /\ bufs[b].st = "none"
    /\ \A c \in BufId : c < b => bufs[c].st # "none"
    /\ \E raw \in NewJSAutoStructuredCloneBuffer :
        IF raw = NULL
        THEN \* assert!(!raw.is_null()) panics: no value is built
             /\ bufs' = [bufs EXCEPT ![b] = [st |-> "Panicked", raw |-> NULL]]
             /\ heap' = heap
        ELSE /\ bufs' = [bufs EXCEPT ![b] = [st |-> "Constructed", raw |-> raw]]
             /\ heap' = [heap EXCEPT ![raw] = [alive |-> TRUE, data_ |-> <<>>]]
    /\ UNCHANGED <<deletes, handles, ret, badCalls>>
    /\ UNCHANGED buildVars

\* A caller keeps the pointer that data() returned.
take_data(b) ==
    /\ bufs[b].st = "Constructed"
    /\ handles' = handles \cup {[owner |-> b, ptr |-> data(bufs[b].raw)]}
    /\ UNCHANGED <<heap, bufs, deletes, ret, badCalls>>
    /\ UNCHANGED buildVars

\* StructuredCloneBuffer::copy_to_vec
copy_to_vec(b) ==
    /\ bufs[b].st = "Constructed"
    /\ LET p   == data(bufs[b].raw)
           len == GetLengthOfJSStructuredCloneData(p)
           \* the bytes land in the reserved capacity; the length stays 0
           vec == [Vec_with_capacity(len) EXCEPT
                       !.mem = CopyJSStructuredCloneData(p)]
       IN  /\ ret' = [op |-> "copy_to_vec", vec |-> vec, reported |-> len,
                         held |-> CopyJSStructuredCloneData(p), of |-> b]
           /\ badCalls' = badCalls \cup Check("GetLengthOfJSStructuredCloneData", p.obj)
                                   \cup Check("CopyJSStructuredCloneData", p.obj)
    /\ UNCHANGED <<heap, bufs, deletes, handles>>
    /\ UNCHANGED buildVars

\* StructuredCloneBuffer::read: the buffer's contents are left as they are.
read(b) ==
    /\ bufs[b].st = "Constructed"
    /\ \E ok \in BOOLEAN :
        ret' = [op |-> "read", of |-> b, ok |-> ok]
    /\ badCalls' = badCalls \cup Check("read", bufs[b].raw)
    /\ UNCHANGED <<heap, bufs, deletes, handles>>
    /\ UNCHANGED buildVars

\* StructuredCloneBuffer::write: the native write discards the old contents;
\* on success the buffer holds the serialized value, on failure nothing.
write(b) ==
    /\ bufs[b].st = "Constructed"
    /\ \E ok \in BOOLEAN, ser \in ByteSeqs \ {<<>>} :
        /\ ret' = [op |-> "write", of |-> b, ok |-> ok]
        /\ heap' = IF Alive(bufs[b].raw)
                   THEN [heap EXCEPT ![bufs[b].raw].data_ =
                                          IF ok THEN ser ELSE <<>>]
                   ELSE heap
    /\ badCalls' = badCalls \cup Check("write", bufs[b].raw)
    /\ UNCHANGED <<bufs, deletes, handles>>
    /\ UNCHANGED buildVars

\* StructuredCloneBuffer::write_bytes
write_bytes(b) ==
    /\ bufs[b].st = "Constructed"
    /\ LET p == data(bufs[b].raw)
       IN  /\ \E ok \in BOOLEAN, bytes \in ByteSeqs :
                /\ GetLengthOfJSStructuredCloneData(p) + Len(bytes) <= MaxLen
                /\ ret' = [op |-> "write_bytes", of |-> b, ok |-> ok]
                /\ heap' = IF Alive(p.obj) /\ ok
                           THEN [heap EXCEPT ![p.obj].data_ = @ \o bytes]
                           ELSE heap
           /\ badCalls' = badCalls \cup Check("WriteBytesToJSStructuredCloneData", p.obj)
    /\ UNCHANGED <<bufs, deletes, handles>>
    /\ UNCHANGED buildVars

\* impl Drop for StructuredCloneBuffer: the value leaves scope.
dropNoDelete(b) ==
    /\ bufs[b].st = "Constructed"
    /\ bufs' = [bufs EXCEPT ![b].st = "Released"]
    /\ UNCHANGED <<heap, deletes, handles, ret, badCalls>>
    /\ UNCHANGED buildVars

drop(b) ==
    /\ bufs[b].st = "Constructed"
    /\ bufs' = [bufs EXCEPT ![b].st = "Released"]
    /\ deletes' = [deletes EXCEPT ![b] = @ + 1]
    /\ badCalls' = badCalls \cup Check("DeleteJSAutoStructuredCloneBuffer", bufs[b].raw)
    /\ heap' = IF Alive(bufs[b].raw)
               THEN [heap EXCEPT ![bufs[b].raw] = [alive |-> FALSE, data_ |-> <<>>]]
               ELSE heap
    /\ UNCHANGED <<handles, ret>>
    /\ UNCHANGED buildVars

InitSC ==
    /\ heap = [a \in Addr |-> [alive |-> FALSE, data_ |-> <<>>]]
    /\ bufs = [b \in BufId |-> [st |-> "none", raw |-> NULL]]
    /\ deletes = [b \in BufId |-> 0]
    /\ handles = {}
    /\ ret = None
    /\ badCalls = {}


(***************************************************************************)
(*                        Build script (build.rs)                          *)
(***************************************************************************)

\* Strings that are searched are sequences of characters.
S_windows == <<"w","i","n","d","o","w","s">>
S_gnu     == <<"g","n","u">>
S_apple   == <<"a","p","p","l","e">>
S_freebsd == <<"f","r","e","e","b","s","d">>

\* Target triples cargo can pass in TARGET, with the platform family and
\* C ABI each one denotes.
Targets == {
    [triple |-> <<"x","8","6","_","6","4","-","p","c","-","w","i","n","d","o","w","s","-","g","n","u">>,
     family |-> "windows", abi |-> "gnu"],
    [triple |-> <<"x","8","6","_","6","4","-","p","c","-","w","i","n","d","o","w","s","-","m","s","v","c">>,
     family |-> "windows", abi |-> "msvc"],
    [triple |-> <<"x","8","6","_","6","4","-","a","p","p","l","e","-","d","a","r","w","i","n">>,
     family |-> "apple", abi |-> "none"],
    [triple |-> <<"a","a","r","c","h","6","4","-","a","p","p","l","e","-","i","o","s">>,
     family |-> "apple", abi |-> "none"],
    [triple |-> <<"x","8","6","_","6","4","-","u","n","k","n","o","w","n","-","f","r","e","e","b","s","d">>,
     family |-> "freebsd", abi |-> "none"],
    [triple |-> <<"x","8","6","_","6","4","-","u","n","k","n","o","w","n","-","n","e","t","b","s","d">>,
     family |-> "netbsd", abi |-> "none"],
    [triple |-> <<"x","8","6","_","6","4","-","u","n","k","n","o","w","n","-","o","p","e","n","b","s","d">>,
     family |-> "openbsd", abi |-> "none"],
    [triple |-> <<"x","8","6","_","6","4","-","u","n","k","n","o","w","n","-","l","i","n","u","x","-","g","n","u">>,
     family |-> "linux", abi |-> "gnu"],
    [triple |-> <<"a","r","m","-","u","n","k","n","o","w","n","-","l","i","n","u","x","-","g","n","u","e","a","b","i","h","f">>,
     family |-> "linux", abi |-> "gnu"],
    [triple |-> <<"x","8","6","_","6","4","-","u","n","k","n","o","w","n","-","l","i","n","u","x","-","m","u","s","l">>,
     family |-> "linux", abi |-> "musl"]
    }

\* The two triples named by the link-directive test of the specification.
T_windows_gnu  == <<"x","8","6","_","6","4","-","p","c","-","w","i","n","d","o","w","s","-","g","n","u">>
T_apple_darwin == <<"x","8","6","_","6","4","-","a","p","p","l","e","-","d","a","r","w","i","n">>

\* env::var_os results: <<>> is None, <<v>> is Some(v).
Unset   == <<>>
Some(v) == <<v>>

\* str::contains
contains(hay, needle) ==
    \E i \in 1..(Len(hay) - Len(needle) + 1) :
        SubSeq(hay, i, i + Len(needle) - 1) = needle

\* The platform family and ABI a triple denotes.
TargetInfo(triple) == CHOOSE t \in Targets : t.triple = triple

\* find_make; gmakeRuns says whether spawning "gmake" succeeds.
find_make_ignore_MAKE(MAKE, gmakeRuns) ==
    IF gmakeRuns THEN "gmake" ELSE "make"
find_make(MAKE, gmakeRuns) ==
    IF MAKE # Unset THEN MAKE[1]
    ELSE IF gmakeRuns THEN "gmake" ELSE "make"

\* cc_flags
cc_flags(debugmozjs, windows) ==
    <<"-DRUST_BINDGEN">>
    \o (IF debugmozjs THEN <<"-DJS_GC_ZEAL", "-DDEBUG", "-DJS_DEBUG">> ELSE <<>>)
    \o (IF windows
        THEN <<"-std=c++14">>
        ELSE <<"-std=gnu++11", "-fno-sized-deallocation",
               "-Wno-unused-parameter", "-Wno-invalid-offsetof">>)

\* Every flag cc_flags can produce.
AllFlags ==
    {"-DRUST_BINDGEN", "-DJS_GC_ZEAL", "-DDEBUG", "-DJS_DEBUG", "-std=c++14",
     "-std=gnu++11", "-fno-sized-deallocation", "-Wno-unused-parameter",
     "-Wno-invalid-offsetof"}

Directive(d, v) == [d |-> d, v |-> v]
LinkLib(v) == Directive("rustc-link-lib", v)

\* The directives build_jsapi prints after a successful native build.
LinkDirectives_psapi_everywhere(target, out_dir) ==
    <<Directive("rustc-link-search", "native=" \o out_dir \o "/js/src"),
      LinkLib("static=js_static"), LinkLib("psapi")>>
    \o (IF contains(target, S_windows)
        THEN <<LinkLib("winmm")>>
             \o (IF contains(target, S_gnu) THEN <<LinkLib("stdc++")>> ELSE <<>>)
        ELSE IF contains(target, S_apple) \/ contains(target, S_freebsd)
        THEN <<LinkLib("c++")>>
        ELSE <<LinkLib("stdc++")>>)
    \o <<Directive("outdir", out_dir)>>

LinkDirectives_no_freebsd(target, out_dir) ==
    <<Directive("rustc-link-search", "native=" \o out_dir \o "/js/src"),
      LinkLib("static=js_static")>>
    \o (IF contains(target, S_windows)
        THEN <<LinkLib("winmm"), LinkLib("psapi")>>
             \o (IF contains(target, S_gnu) THEN <<LinkLib("stdc++")>> ELSE <<>>)
        ELSE IF contains(target, S_apple)
        THEN <<LinkLib("c++")>>
        ELSE <<LinkLib("stdc++")>>)
    \o <<Directive("outdir", out_dir)>>

LinkDirectives_static_last(target, out_dir) ==
    <<Directive("rustc-link-search", "native=" \o out_dir \o "/js/src")>>
    \o (IF contains(target, S_windows)
        THEN <<LinkLib("winmm"), LinkLib("psapi")>>
             \o (IF contains(target, S_gnu) THEN <<LinkLib("stdc++")>> ELSE <<>>)
        ELSE IF contains(target, S_apple) \/ contains(target, S_freebsd)
        THEN <<LinkLib("c++")>>
        ELSE <<LinkLib("stdc++")>>)
    \o <<LinkLib("static=js_static"), Directive("outdir", out_dir)>>

LinkDirectives(target, out_dir) ==
    <<Directive("rustc-link-search", "native=" \o out_dir \o "/js/src"),
      LinkLib("static=js_static")>>
    \o (IF contains(target, S_windows)
        THEN <<LinkLib("winmm"), LinkLib("psapi")>>
             \o (IF contains(target, S_gnu) THEN <<LinkLib("stdc++")>> ELSE <<>>)
        ELSE IF contains(target, S_apple) \/ contains(target, S_freebsd)
        THEN <<LinkLib("c++")>>
        ELSE <<LinkLib("stdc++")>>)
    \o <<Directive("outdir", out_dir)>>

\* The arguments and environment of the native build command.
MakeArgs == <<"-R", "-f", "makefile.cargo">>
MakeFlagsFor(windows, CARGO_MAKEFLAGS) ==
    IF windows THEN "removed"
    ELSE IF CARGO_MAKEFLAGS # Unset THEN CARGO_MAKEFLAGS[1]
    ELSE "inherited"

\* What find_make starts: a bare "gmake", unless MAKE is set.
Probe(MAKE, gmakeRuns) ==
    IF MAKE # Unset THEN <<>>
    ELSE <<[tool |-> "gmake", args |-> <<>>, makeflags |-> "inherited",
            outcome |-> IF gmakeRuns THEN "ran" ELSE "nospawn"]>>

\* build_jsapi: run the native build and print the link directives.
build_jsapi_no_assert ==
    /\ pc = "main"
    /\ \E gmakeRuns \in BOOLEAN, result \in {"ok", "fail", "nospawn"} :
        LET moz  == env.MOZTOOLS_PATH # Unset
            make == IF moz THEN "mozmake" ELSE find_make(env.MAKE, gmakeRuns)
            cmd  == [tool |-> make, args |-> MakeArgs,
                     makeflags |-> MakeFlagsFor(cfg.windows, env.CARGO_MAKEFLAGS),
                     outcome |-> result]
        IN  /\ env' = IF moz
                      THEN [env EXCEPT !.PATH = env.MOZTOOLS_PATH[1] \o @]
                      ELSE env
            /\ spawns' = spawns \o Probe(env.MAKE, gmakeRuns) \o <<cmd>>
            /\ IF result # "nospawn"
               THEN /\ stdout' = stdout \o LinkDirectives(env.TARGET, env.OUT_DIR)
                    /\ pc' = "jsapi_done"
               ELSE /\ stdout' = stdout
                    /\ pc' = "abort_jsapi"
    /\ UNCHANGED <<cfg, glue, gen>>
    /\ UNCHANGED scVars

build_jsapi ==
    /\ pc = "main"
    /\ \E gmakeRuns \in BOOLEAN, result \in {"ok", "fail", "nospawn"} :
        LET moz  == env.MOZTOOLS_PATH # Unset
            make == IF moz THEN "mozmake" ELSE find_make(env.MAKE, gmakeRuns)
            cmd  == [tool |-> make, args |-> MakeArgs,
                     makeflags |-> MakeFlagsFor(cfg.windows, env.CARGO_MAKEFLAGS),
                     outcome |-> result]
        IN  /\ env' = IF moz
                      THEN [env EXCEPT !.PATH = env.MOZTOOLS_PATH[1] \o @]
                      ELSE env
            /\ spawns' = spawns \o Probe(env.MAKE, gmakeRuns) \o <<cmd>>
            /\ IF result = "ok"
               THEN /\ stdout' = stdout \o LinkDirectives(env.TARGET, env.OUT_DIR)
                    /\ pc' = "jsapi_done"
               ELSE \* .expect(..) or assert!(result.success()) panics
                    /\ stdout' = stdout
                    /\ pc' = "abort_jsapi"
    /\ UNCHANGED <<cfg, glue, gen>>
    /\ UNCHANGED scVars

\* build_jsglue: compile src/jsglue.cpp; flag_if_supported keeps a flag
\* only when the C++ compiler accepts it.
build_jsglue ==
    /\ pc = "jsapi_done"
    /\ \E supported \in SUBSET AllFlags, ok \in BOOLEAN :
        /\ glue' = Some([cpp     |-> TRUE,
                         flags   |-> SelectSeq(cc_flags(cfg.debugmozjs, cfg.windows),
                                               LAMBDA f : f \in supported),
                         file    |-> "src/jsglue.cpp",
                         include |-> env.OUT_DIR \o "/dist/include",
                         lib     |-> "jsglue"])
        /\ pc' = IF ok THEN "jsglue_done" ELSE "abort_jsglue"
    /\ UNCHANGED <<env, cfg, spawns, stdout, gen>>
    /\ UNCHANGED scVars

\* build_jsapi_bindings: configure and run the binding generator.
build_jsapi_bindings ==
    /\ pc = "jsglue_done"
    /\ LET args == <<"-I", env.OUT_DIR \o "/dist/include", "-x", "c++">>
                   \o (IF cfg.windows THEN <<"-fms-compatibility">> ELSE <<>>)
                   \o cc_flags(cfg.debugmozjs, cfg.windows)
       IN  \E ok \in BOOLEAN :
            /\ gen' = Some([header |-> "./src/jsglue.hpp",
                            clang_args |-> args,
                            constructors |-> FALSE,
                            destructors |-> FALSE,
                            methods |-> FALSE,
                            out |-> env.OUT_DIR \o "/jsapi.rs"])
            /\ IF ok
               THEN /\ stdout' = stdout \o <<Directive("log", "Generting bindings"),
                                             Directive("rerun-if-changed", "src/jsglue.hpp")>>
                    /\ pc' = "done"
               ELSE \* generate() or write_to_file() failed: expect panics
                    /\ stdout' = stdout \o <<Directive("log", "Generting bindings")>>
                    /\ pc' = "abort_bindings"
    /\ UNCHANGED <<env, cfg, spawns, glue>>
    /\ UNCHANGED scVars

InitBuild ==
    /\ env \in [MAKE : {Unset, Some("nmake")},
                MOZTOOLS_PATH : {Unset, Some(<<"/moztools/bin">>)},
                CARGO_MAKEFLAGS : {Unset, Some("-j4")},
                TARGET : {t.triple : t \in Targets},
                OUT_DIR : {"/out/debug", "/out/release"},
                PATH : {<<"/usr/bin">>}]
    /\ cfg \in [windows : BOOLEAN, debugmozjs : BOOLEAN]
    /\ pc = "main"
    /\ spawns = <<>>
    /\ stdout = <<>>
    /\ glue = <<>>
    /\ gen = <<>>

\* The build script at rest, for runs that only exercise the wrapper.
BuildIdle ==
    /\ env = [MAKE |-> Unset, MOZTOOLS_PATH |-> Unset, CARGO_MAKEFLAGS |-> Unset,
              TARGET |-> T_windows_gnu, OUT_DIR |-> "/out/debug",
              PATH |-> <<"/usr/bin">>]
    /\ cfg = [windows |-> FALSE, debugmozjs |-> FALSE]
    /\ pc = "main"
    /\ spawns = <<>>
    /\ stdout = <<>>
    /\ glue = <<>>
    /\ gen = <<>>

(***************************************************************************)
(*                            Specifications                               *)
(***************************************************************************)

NextSC ==
    \E b \in BufId :
        \/ new(b)
        \/ take_data(b)
        \/ copy_to_vec(b)
        \/ read(b)
        \/ write(b)
        \/ write_bytes(b)
        \/ drop(b)

NextBuild ==
    \/ build_jsapi
    \/ build_jsglue
    \/ build_jsapi_bindings

\* No wrapper exists yet and the build script has not run.
InitWrapperRun == InitSC /\ BuildIdle
\* The build script starts in any environment; no wrapper is involved.
InitBuildRun   == InitSC /\ InitBuild

SpecSC    == InitWrapperRun /\ [][NextSC]_vars
SpecBuild == InitBuildRun /\ [][NextBuild]_vars

(***************************************************************************)
(*                              Properties                                 *)
(***************************************************************************)

Owners(a) == {b \in BufId : bufs[b].st = "Constructed" /\ bufs[b].raw = a}

\* C1: the native buffer of every StructuredCloneBuffer is destroyed exactly
\* once: a value that has left scope has had one Delete call, a value still
\* in scope none, no live native buffer is left without an owner, and no
\* native call is ever made on a destroyed buffer, whatever data /
\* copy_to_vec / read / write / write_bytes calls came before and whatever
\* they returned.
DestroyedExactlyOnce ==
    /\ \A b \in BufId :
        /\ deletes[b] <= 1
        /\ bufs[b].st = "Released" <=> deletes[b] = 1
        /\ bufs[b].st = "Constructed" => Alive(bufs[b].raw)
    /\ \A a \in Addr : heap[a].alive => Cardinality(Owners(a)) = 1
    /\ badCalls = {}

DroppedAfterFailedCalls ==
    \E b \in BufId :
        /\ bufs[b].st = "Released"
        /\ deletes[b] = 1
        /\ ret.op \in {"read", "write", "write_bytes"}
        /\ ret.of = b /\ ~ret.ok

\* C2: the vector copy_to_vec returns has as many bytes as the length query
\* reported, and they are the bytes the buffer held at that moment.
CopyOutIsFullCopy ==
    ret.op = "copy_to_vec" =>
        /\ ret.vec.len = ret.reported
        /\ VecContents(ret.vec) = ret.held

\* C3 (as stated): every data handle a caller holds refers to a buffer that
\* is still Constructed.
HandlesNeverOutliveBuffer ==
    \A h \in handles : bufs[h.owner].st = "Constructed"

\* C3 (amended): a data handle points at the data of the buffer it was taken
\* from and is valid for as long as that buffer is Constructed; a handle
\* whose buffer has been released no longer points at a buffer its owner
\* holds; the wrapper itself never passes a data handle of a destroyed
\* buffer to the native helpers.
HandlesValidWhileConstructed ==
    /\ \A h \in handles :
        /\ h.ptr.field = "data_"
        /\ bufs[h.owner].st \in {"Constructed", "Released"}
        /\ h.ptr.obj = bufs[h.owner].raw
        /\ bufs[h.owner].st = "Constructed" => Alive(h.ptr.obj)
        /\ bufs[h.owner].st = "Released" => h.owner \notin Owners(h.ptr.obj)
    /\ \A c \in badCalls :
        c.fn \notin {"GetLengthOfJSStructuredCloneData",
                     "CopyJSStructuredCloneData",
                     "WriteBytesToJSStructuredCloneData"}

HandleHeldAfterRelease ==
    /\ \E h \in handles : bufs[h.owner].st = "Released"
    /\ \E h \in handles : bufs[h.owner].st = "Constructed"
    /\ ret.op = "copy_to_vec"

\* C4: a null result of the native allocation never becomes a wrapper: every
\* Constructed or Released wrapper holds a non-null handle, a failed
\* construction leaves nothing to call or destroy, and no native call is
\* made on null.
NullNeverWrapped ==
    /\ \A b \in BufId :
        /\ bufs[b].st \in {"Constructed", "Released"} => bufs[b].raw # NULL
        /\ bufs[b].st = "Constructed" => Alive(bufs[b].raw)
        /\ bufs[b].st = "Panicked" =>
            /\ bufs[b].raw = NULL
            /\ deletes[b] = 0
            /\ \A h \in handles : h.owner # b
            /\ ret # None => ret.of # b
    /\ \A c \in badCalls : ~c.null

ConstructionFailed ==
    /\ \E b \in BufId : bufs[b].st = "Panicked"
    /\ \E b \in BufId : bufs[b].st = "Released" /\ deletes[b] = 1

\* ------------------------------------------------------------ build.rs

\* The native build commands started so far.
Builds == SelectSeq(spawns, LAMBDA c : c.args = MakeArgs)

\* The libraries named by the link-lib directives printed so far.
Libs == {stdout[i].v : i \in {j \in 1..Len(stdout) : stdout[j].d = "rustc-link-lib"}}

Positions(d, v) == {i \in 1..Len(stdout) : stdout[i] = Directive(d, v)}

NativeBuildSucceeded == pc \notin {"main", "abort_jsapi"}

\* C5: a native build that exits non-zero or cannot be spawned aborts the
\* run: nothing is printed, the glue is not compiled, no bindings are
\* generated and the build is not run again; glue compilation and binding
\* generation happen only after a successful native build, in that order.
AbortOnFailedBuild ==
    /\ Len(Builds) <= 1
    /\ pc # "main" <=> Len(Builds) = 1
    /\ (Len(Builds) = 1 /\ Builds[1].outcome # "ok") =>
            pc = "abort_jsapi" /\ stdout = <<>> /\ glue = <<>> /\ gen = <<>>
    /\ glue # <<>> => Len(Builds) = 1 /\ Builds[1].outcome = "ok"
    /\ gen # <<>> => glue # <<>>
    /\ (pc = "jsapi_done" => glue = <<>> /\ gen = <<>>)
    /\ (pc = "jsglue_done" => glue # <<>> /\ gen = <<>>)

NativeBuildFailed ==
    /\ pc = "abort_jsapi"
    /\ Builds[1].outcome = "fail"

\* C6: winmm and psapi are emitted exactly for Windows targets; for
\* x86_64-pc-windows-gnu the directives include winmm, psapi and stdc++, for
\* x86_64-apple-darwin they include c++ and neither winmm nor psapi.
WindowsLibsByTarget ==
    NativeBuildSucceeded =>
        /\ "winmm" \in Libs <=> TargetInfo(env.TARGET).family = "windows"
        /\ "psapi" \in Libs <=> TargetInfo(env.TARGET).family = "windows"
        /\ env.TARGET = T_windows_gnu => {"winmm", "psapi", "stdc++"} \subseteq Libs
        /\ env.TARGET = T_apple_darwin =>
              "c++" \in Libs /\ "winmm" \notin Libs /\ "psapi" \notin Libs

WindowsGnuLinked ==
    /\ pc = "jsapi_done"
    /\ env.TARGET = T_windows_gnu
    /\ {"winmm", "psapi", "stdc++"} \subseteq Libs

\* C7 (as stated): every successful build emits exactly one C++ runtime:
\* c++ on Apple and BSD targets, stdc++ on every other target.
CxxRuntimeByFamily ==
    NativeBuildSucceeded =>
        LET bsd == TargetInfo(env.TARGET).family \in
                       {"apple", "freebsd", "netbsd", "openbsd"}
        IN  /\ "c++" \in Libs <=> bsd
            /\ "stdc++" \in Libs <=> ~bsd

\* C7 (amended): c++ is emitted on Apple and FreeBSD targets; stdc++ on
\* Windows targets with the GNU ABI and on every target that is neither
\* Windows, Apple nor FreeBSD; no C++ runtime on other Windows targets;
\* never both.
CxxRuntimeAsEmitted ==
    NativeBuildSucceeded =>
        LET t == TargetInfo(env.TARGET)
        IN  /\ "c++" \in Libs <=> t.family \in {"apple", "freebsd"}
            /\ "stdc++" \in Libs <=>
                   \/ t.family = "windows" /\ t.abi = "gnu"
                   \/ t.family \notin {"windows", "apple", "freebsd"}
            /\ ~("c++" \in Libs /\ "stdc++" \in Libs)

NoCxxRuntimeOnMsvc ==
    /\ pc = "jsapi_done"
    /\ TargetInfo(env.TARGET).abi = "msvc"
    /\ "c++" \notin Libs /\ "stdc++" \notin Libs

\* C8: after a successful native build the static js_static directive has
\* been printed exactly once, before every c++ / stdc++ directive, and the
\* search path <OUT_DIR>/js/src has been printed too.
StaticBeforeCxx ==
    NativeBuildSucceeded =>
        /\ Cardinality(Positions("rustc-link-lib", "static=js_static")) = 1
        /\ \A i \in Positions("rustc-link-lib", "static=js_static") :
             \A j \in Positions("rustc-link-lib", "c++")
                      \cup Positions("rustc-link-lib", "stdc++") : i < j
        /\ Positions("rustc-link-search",
                     "native=" \o env.OUT_DIR \o "/js/src") # {}

StaticThenCxxEmitted ==
    /\ pc = "done"
    /\ Positions("rustc-link-lib", "c++") # {}
    /\ Positions("rustc-link-lib", "static=js_static") # {}

\* The tool find_make settles on, as far as the started processes show it.
ProbedTool ==
    IF spawns[1].args = <<>> /\ spawns[1].outcome = "ran" THEN "gmake" ELSE "make"

\* C9 (as stated): the native build runs the MAKE override whenever it is
\* set, and otherwise gmake if gmake can be run and make if not, for every
\* value of MAKE and MOZTOOLS_PATH.
MakeOverrideHonored ==
    Len(Builds) = 1 =>
        Builds[1].tool = IF env.MAKE # Unset THEN env.MAKE[1] ELSE ProbedTool

\* C9 (amended): when MOZTOOLS_PATH is set the native build runs mozmake,
\* whatever MAKE is; when it is not set the build runs the MAKE override if
\* there is one, and otherwise gmake if gmake can be run and make if not.
MakeOverrideUnlessMoztools ==
    Len(Builds) = 1 =>
        Builds[1].tool = IF env.MOZTOOLS_PATH # Unset THEN "mozmake"
                         ELSE IF env.MAKE # Unset THEN env.MAKE[1]
                         ELSE ProbedTool

OverrideInvoked ==
    /\ Len(Builds) = 1
    /\ env.MAKE # Unset
    /\ env.MOZTOOLS_PATH = Unset
    /\ Builds[1].tool = "nmake"

\* C10: the glue compiler and the generator's parser receive the same
\* cc_flags: each such flag reaches both or neither, and -DRUST_BINDGEN
\* reaches both.
SameFlagsToBoth ==
    gen # <<>> =>
        LET toGlue == {glue[1].flags[i] : i \in 1..Len(glue[1].flags)}
            toGen  == {gen[1].clang_args[i] : i \in 1..Len(gen[1].clang_args)}
        IN  /\ \A f \in AllFlags : f \in toGlue <=> f \in toGen
            /\ "-DRUST_BINDGEN" \in toGlue
            /\ "-DRUST_BINDGEN" \in toGen

====
